---- MODULE Spec2Model ----
(***************************************************************************)
(* Model of MR::Thread (lib/thread.h): the process-wide __Backend registry *)
(* and its register_thread / unregister_thread, the single-thread handle   *)
(* __single_thread and the group handle __multi_thread.                    *)
(***************************************************************************)
EXTENDS Integers, Sequences, FiniteSets, TLC

\* Number of threads that call register_thread() / unregister_thread().
NProcs == 3

\* Largest group size n given to Thread::multi().
MaxThreads == 3

\* Number of handle objects that one launch and the moves after it construct.
MaxHandles == 3

\* Largest group size of a group handle that is moved.
MoveThreads == 2

\* Number of items the producer of a pipeline emits.
NItems == 2

\* Largest capacity of a hand-off queue of a pipeline.
Capacity == 2

\* Largest number of replicas of a pipeline stage.
Replicas == 2

\* Largest number of stage replicas that fail in one run of a pipeline.
MaxFailures == 2

\* Largest number of shells (b-values) given to dirmerge.
MaxShells == 2

\* Largest number of subsets (phase-encode directions) per shell.
MaxSubsets == 2

\* Largest number of directions in one file given to dirmerge.
MaxDirs == 2

\* Largest number of directions in all the files given to dirmerge.
MaxTotal == 4

\* Depth of the deepest directory the file dialog visits.
MaxDepth == 2

\* Largest number of entries in one directory.
MaxEntries == 2

Procs == 1 .. NProcs

VARIABLES
  \* ---- __Backend -------------------------------------------------------
  backend,    \* static __Backend* backend: 0 is nullptr, i > 0 is heap[i]
  heap,       \* every __Backend instance constructed so far, by address
  pc,         \* position of each calling thread inside register/unregister
  ref,        \* per thread: the instance its current statement dereferenced
  tmp,        \* per thread: the refcount value loaded by ++ / --
  phased      \* TRUE: no unregister_thread() starts before every
              \* register_thread() has returned; FALSE: free interleaving

backendVars == <<backend, heap, pc, ref, tmp, phased>>

VARIABLES
  \* ---- __single_thread --------------------------------------------------
  st_pc,        \* position of the code that owns the handle
  st_behav,     \* what the functor's execute() does: an Outcome
  thread,       \* std::future<void> thread and the execution unit behind it
  st_raised,    \* failures wait() has raised to its caller, in order
  st_diag,      \* failures reported by E.display(), in order
  st_joins,     \* number of thread.get() calls made on the handle
  st_explicit   \* TRUE once wait() was called by the owner (not by teardown)

singleVars == <<st_pc, st_behav, thread, st_raised, st_diag, st_joins, st_explicit>>

VARIABLES
  \* ---- __multi_thread<Functor> -------------------------------------------
  mt_pc,            \* position of the code that owns the group handle
  nthreads,         \* the nthreads argument of the constructor
  mt_behav,         \* what execute() does in each execution unit
  functors,         \* std::vector<F> functors: the internally owned copies
  threads,          \* std::vector<std::future<void>> threads, and their units
  mt_i,             \* wait(): index of the future the loop is at
  exception_thrown, \* wait(): bool exception_thrown
  mt_raised,        \* failures wait() has raised to its caller, in order
  mt_diag,          \* E.display() calls: worker index, 0 for the aggregate
  mt_explicit,      \* TRUE once wait() was called by the owner
  request           \* the __Multi object given to run(), NoRequest if none

multiVars == <<mt_pc, nthreads, mt_behav, functors, threads, mt_i,
               exception_thrown, mt_raised, mt_diag, mt_explicit, request>>

VARIABLES
  \* ---- handles that are moved ---------------------------------------------
  handles,   \* the handle objects constructed so far, in order of construction
  units,     \* the execution units started by std::async, in order of launch
  mv_pc      \* "run"; "terminated" after std::terminate(); "fault" after a
             \* dereference of the null registry pointer

moveVars == <<handles, units, mv_pc>>

VARIABLES
  \* ---- Thread::run_queue ---------------------------------------------------
  cap,       \* capacity of each hand-off queue
  nrep,      \* number of replicas of each stage
  emitted,   \* number of items the producer stage has emitted so far
  queue,     \* the buffered items of each hand-off point, oldest first
  open,      \* per hand-off point: upstream replicas that have not yet
             \* signalled end-of-stream
  wpc,       \* position of each stage replica
  witem,     \* the item each stage replica holds, 0 if none
  count,     \* per stage and item: how many times the stage processed it
  received,  \* the items the consumer stage has taken, in order
  pl_pc,     \* "running", then "returned" once run_queue has returned,
             \* "threw" once it has raised a failure
  cancel,    \* TRUE once a stage replica has failed: the pipeline is cancelling
  failures,  \* the replicas that failed, in the order the failures were observed
  pl_raised, \* the failures run_queue has raised to its caller
  pl_diag    \* the failures reported as diagnostics, in order

failVars == <<cancel, failures, pl_raised, pl_diag>>

pipeVars == <<cap, nrep, emitted, queue, open, wpc, witem, count, received, pl_pc,
              failVars>>

VARIABLES
  \* ---- mrpermute: run() ------------------------------------------------------
  mp_pc,         \* position inside run()
  argument,      \* the five positional arguments, in the order of ARGUMENTS
  options,       \* per option: the value supplied, Absent if not supplied
  mp_dh,         \* float dh, in thousandths
  mp_H,          \* float H, in thousandths
  mp_E,          \* float E, in thousandths
  mp_num_perms,  \* int num_perms
  processor,     \* the last three arguments given to Stats::Processor
  outputs        \* the names of the files created so far

permuteVars == <<mp_pc, argument, options, mp_dh, mp_H, mp_E, mp_num_perms,
                 processor, outputs>>

VARIABLES
  \* ---- dirmerge: run() -------------------------------------------------------
  dm_pc,        \* position inside run()
  num_subsets,  \* size_t num_subsets
  dirs,         \* dirs[b][p]: the directions of subset p of shell b not yet merged
  total,        \* size_t total
  fraction,     \* per shell: the number of its directions, of which
                \* fraction[b] is the quotient by total
  merged,       \* std::vector<OutDir> merged
  nPE,          \* size_t nPE
  loaded,       \* dirs as it was read from the files
  dm_skipped    \* number of iterations of the merge loop that emitted nothing

mergeVars == <<dm_pc, num_subsets, dirs, total, fraction, merged, nPE, loaded,
               dm_skipped>>

VARIABLES
  \* ---- Dialog::File ----------------------------------------------------------
  fd_pc,       \* "idle" before the dialog is constructed, then "open"
  listing,     \* the file system: per directory, the number of its entries
  cwd,         \* std::string File::cwd, as the depth of the directory
  dir,         \* the directory handle: NULL, or the directory it reads and
               \* the number of entries read_name() has returned from it
  idle_timer,  \* TRUE while idle_timer is active
  ok_button,   \* TRUE while ok_button is enabled
  fd_seen      \* number of entries the idle slot has read since the last update()

dialogVars == <<fd_pc, listing, cwd, dir, idle_timer, ok_button, fd_seen>>

cmdVars == <<permuteVars, mergeVars, dialogVars>>

vars == <<backendVars, singleVars, multiVars, moveVars, pipeVars, cmdVars>>

\* What a run of the pipeline leaves alone.
nonPipeVars == <<backendVars, singleVars, multiVars, moveVars, cmdVars>>

\* What a run of a command leaves alone.
nonCmdVars == <<backendVars, singleVars, multiVars, moveVars, pipeVars, dialogVars>>

\* What the file dialog leaves alone.
nonDialogVars == <<backendVars, singleVars, multiVars, moveVars, pipeVars,
                   permuteVars, mergeVars>>

--------------------------------------------------------------------------
\* __Backend: the registry

\* A freshly constructed __Backend: no registration, mutex unlocked
\* (mutex = 0; p > 0 means locked by thread p).
NewBackend == [alive |-> TRUE, refcount |-> 0, mutex |-> 0]

\* refcount is a size_t: arithmetic is modulo 2^64.  A value is kept as its
\* representative nearest to 0, so -1 stands for 2^64 - 1; only a comparison
\* with 0 is ever made on it.
SizeInc(x) == x + 1
SizeDec(x) == x - 1

\* if (!backend)
RegCheck(p) ==
  /\ pc[p] = "idle"
  /\ pc' = [pc EXCEPT ![p] = IF backend = 0 THEN "r_new" ELSE "r_getlock"]
  /\ UNCHANGED <<backend, heap, ref, tmp, phased>>

\* backend = new __Backend;
RegNew(p) ==
  /\ pc[p] = "r_new"
  /\ heap' = Append(heap, NewBackend)
  /\ backend' = Len(heap) + 1
  /\ pc' = [pc EXCEPT ![p] = "r_getlock"]
  /\ UNCHANGED <<ref, tmp, phased>>

\* get_lock(): return backend->mutex.  Through a null pointer the call
\* faults and never returns.
GetLock(p, next) ==
  /\ ref' = [ref EXCEPT ![p] = backend]
  /\ pc' = [pc EXCEPT ![p] = IF backend = 0 THEN "fault" ELSE next]
  /\ UNCHANGED <<backend, heap, tmp, phased>>

\* The constructor of the temporary std::lock_guard: mutex.lock().  The
\* mutex of a deleted instance is freed memory: the lock either works on
\* the stale bytes or never returns.
Lock(p, next) ==
  \/ /\ heap[ref[p]].mutex = 0
     /\ heap' = [heap EXCEPT ![ref[p]].mutex = p]
     /\ pc' = [pc EXCEPT ![p] = next]
     /\ UNCHANGED <<backend, ref, tmp, phased>>
  \/ /\ ~heap[ref[p]].alive
     /\ pc' = [pc EXCEPT ![p] = "fault"]
     /\ UNCHANGED <<backend, heap, ref, tmp, phased>>

\* The temporary std::lock_guard is destroyed at the end of its own
\* statement: mutex.unlock().
Unlock(p, next) ==
  /\ heap' = [heap EXCEPT ![ref[p]].mutex = 0]
  /\ pc' = [pc EXCEPT ![p] = next]
  /\ UNCHANGED <<backend, ref, tmp, phased>>

\* The load half of ++backend->refcount / --backend->refcount.  The count of
\* a deleted instance is read from, and later written to, the freed bytes.
LoadRefcount(p, next) ==
  /\ ref' = [ref EXCEPT ![p] = backend]
  /\ IF backend = 0
       THEN /\ pc' = [pc EXCEPT ![p] = "fault"]
            /\ tmp' = tmp
       ELSE /\ pc' = [pc EXCEPT ![p] = next]
            /\ tmp' = [tmp EXCEPT ![p] = heap[backend].refcount]
  /\ UNCHANGED <<backend, heap, phased>>

RegGetLock(p) == pc[p] = "r_getlock" /\ GetLock(p, "r_lock")
RegLock(p)    == pc[p] = "r_lock"    /\ Lock(p, "r_unlock")
RegUnlock(p)  == pc[p] = "r_unlock"  /\ Unlock(p, "r_load")
RegLoad(p)    == pc[p] = "r_load"    /\ LoadRefcount(p, "r_store")

\* The store half of ++backend->refcount; register_thread() returns.
RegStore(p) ==
  /\ pc[p] = "r_store"
  /\ heap' = [heap EXCEPT ![ref[p]].refcount = SizeInc(tmp[p])]
  /\ pc' = [pc EXCEPT ![p] = "registered"]
  /\ UNCHANGED <<backend, ref, tmp, phased>>

InRegister == {"idle", "r_new", "r_getlock", "r_lock", "r_unlock", "r_load", "r_store"}

\* unregister_thread() is entered: get_lock().
UnregGetLock(p) ==
  /\ pc[p] = "registered"
  /\ phased => \A q \in Procs : pc[q] \notin InRegister
  /\ GetLock(p, "u_lock")

UnregLock(p)   == pc[p] = "u_lock"   /\ Lock(p, "u_unlock")
UnregUnlock(p) == pc[p] = "u_unlock" /\ Unlock(p, "u_load")
UnregLoad(p)   == pc[p] = "u_load"   /\ LoadRefcount(p, "u_store")

\* The store half of --backend->refcount.
UnregStore(p) ==
  /\ pc[p] = "u_store"
  /\ heap' = [heap EXCEPT ![ref[p]].refcount = SizeDec(tmp[p])]
  /\ pc' = [pc EXCEPT ![p] = "u_test"]
  /\ UNCHANGED <<backend, ref, tmp, phased>>

\* if (!backend->refcount)
UnregTest(p) ==
  /\ pc[p] = "u_test"
  /\ ref' = [ref EXCEPT ![p] = backend]
  /\ pc' = [pc EXCEPT ![p] =
              IF backend = 0 THEN "fault"
              ELSE IF heap[backend].refcount = 0 THEN "u_delete" ELSE "done"]
  /\ UNCHANGED <<backend, heap, tmp, phased>>

\* delete backend;  (delete of nullptr does nothing, a second delete of the
\* same instance faults).
UnregDelete(p) ==
  /\ pc[p] = "u_delete"
  /\ ref' = [ref EXCEPT ![p] = backend]
  /\ IF backend = 0
       THEN /\ pc' = [pc EXCEPT ![p] = "u_null"]
            /\ heap' = heap
       ELSE IF heap[backend].alive
         THEN /\ pc' = [pc EXCEPT ![p] = "u_null"]
              /\ heap' = [heap EXCEPT ![backend].alive = FALSE]
         ELSE /\ pc' = [pc EXCEPT ![p] = "fault"]
              /\ heap' = heap
  /\ UNCHANGED <<backend, tmp, phased>>

\* backend = nullptr; unregister_thread() returns.
UnregNull(p) ==
  /\ pc[p] = "u_null"
  /\ backend' = 0
  /\ pc' = [pc EXCEPT ![p] = "done"]
  /\ UNCHANGED <<heap, ref, tmp, phased>>

register_thread(p) ==
  \/ RegCheck(p)
  \/ RegNew(p)
  \/ RegGetLock(p)
  \/ RegLock(p)
  \/ RegUnlock(p)
  \/ RegLoad(p)
  \/ RegStore(p)

unregister_thread(p) ==
  \/ UnregGetLock(p)
  \/ UnregLock(p)
  \/ UnregUnlock(p)
  \/ UnregLoad(p)
  \/ UnregStore(p)
  \/ UnregTest(p)
  \/ UnregDelete(p)
  \/ UnregNull(p)

BackendInit ==
  /\ backend = 0
  /\ heap = <<>>
  /\ pc = [p \in Procs |-> "idle"]
  /\ ref = [p \in Procs |-> 0]
  /\ tmp = [p \in Procs |-> 0]

BackendNext == \E p \in Procs : register_thread(p) \/ unregister_thread(p)

--------------------------------------------------------------------------
\* Functors and futures

\* What a functor's execute() can do: return, throw an MR::Exception, or
\* throw anything else (std::bad_alloc, std::runtime_error, ...).
Outcomes == {"returned", "Exception", "other"}

Failures == Outcomes \ {"returned"}

\* catch (Exception& E): the handler of ~__single_thread, of
\* __multi_thread::wait and of ~__multi_thread matches MR::Exception only.
CatchesNone(e) == FALSE
Catches(e) == e = "Exception"

\* The thread that constructs, waits on and destroys the handles.
Caller == 1

\* A future that holds no shared state (default constructed, or spent by get()).
NoFuture == [valid |-> FALSE, state |-> "none"]

\* std::async (std::launch::async, &F::execute, &functor): a new execution
\* unit is created to run execute(); the future refers to its shared state.
\* The unit is "created", then "running" (inside execute()), then "done".
asyncDeferred == [valid |-> TRUE, state |-> "done"]
async == [valid |-> TRUE, state |-> "created"]

\* Functor instances: 0 is the functor object the caller passes to
\* Thread::run() or Thread::multi(); i > 0 is a copy of it.
Original == 0

\* The future and unit started on functor instance f.
AsyncOn(f) == [functor |-> f] @@ async

\* The unit has terminated: future::get() no longer blocks.
Terminated(t) == t.state \notin {"created", "running"}

\* future::get() on a future without shared state: libstdc++ throws
\* std::future_error; otherwise the stored outcome of the unit.
future_get(t, behav) == IF t.valid THEN behav ELSE "other"

--------------------------------------------------------------------------
\* Thread::multi() and Thread::run()

\* run() was given a plain functor, not a __Multi.
NoRequest == [num |-> -1]

\* A copy of the functor that is none of the copies in functors.
TempCopy == MaxThreads

\* multi (functor, nthreads): return { functor, nthreads }, where the member
\* __Multi::functor is a reference.
multiByValue(functor, n) == [functor |-> TempCopy, num |-> n]
multi(functor, n) == [functor |-> functor, num |-> n]

\* run (functor, name): __run<Functor> is the specialisation for __Multi
\* exactly when the argument is a __Multi.
RunsGroup(req) == req # NoRequest

\* The caller evaluates Thread::multi (functor, n), the argument of run().
multi_call ==
  /\ st_pc = "init" /\ mt_pc = "init"
  /\ pc[Caller] = "idle"
  /\ request = NoRequest
  /\ \E n \in 0 .. MaxThreads : request' = multi(Original, n)
  /\ UNCHANGED <<mt_pc, nthreads, mt_behav, functors, threads, mt_i,
                 exception_thrown, mt_raised, mt_diag, mt_explicit,
                 backendVars, singleVars, moveVars, pipeVars, cmdVars>>

--------------------------------------------------------------------------
\* __thread_base

\* The mem-initializer __thread_base (name) has run, so register_thread()
\* has returned, before the body of a handle's constructor calls std::async.
BaseConstructedEarly == TRUE
BaseConstructed == pc[Caller] = "registered"

\* __thread_base (name) : register_thread(), run by the thread that calls
\* Thread::run().
thread_base_ctor ==
  /\ st_pc = "init" /\ mt_pc = "init"
  /\ register_thread(Caller)
  /\ UNCHANGED <<singleVars, multiVars, moveVars, pipeVars, cmdVars>>

\* ~__thread_base: unregister_thread(), after the body of the handle's own
\* destructor.
thread_base_dtor ==
  /\ st_pc = "dtor_base" \/ mt_pc \in {"dtor_base", "ctor_threw"}
  /\ unregister_thread(Caller)
  /\ UNCHANGED <<singleVars, multiVars, moveVars, pipeVars, cmdVars>>

--------------------------------------------------------------------------
\* __single_thread

\* ~__single_thread: if (thread.valid())
DtorWaitsAlways(t) == TRUE
DtorWaitsNever(t) == FALSE
DtorWaits(t) == t.valid

\* The body of __single_thread (Functor&& functor, name).
single_thread_ctor ==
  /\ st_pc = "init" /\ mt_pc = "init"
  /\ BaseConstructed
  /\ ~RunsGroup(request)
  /\ \E b \in Outcomes : st_behav' = b
  /\ thread' = AsyncOn(Original)
  /\ st_pc' = "launched"
  /\ UNCHANGED <<st_raised, st_diag, st_joins, st_explicit, backendVars, multiVars, moveVars, pipeVars, cmdVars>>

\* The execution unit enters functor.execute().
single_start ==
  /\ thread.state = "created"
  /\ thread' = [thread EXCEPT !.state = "running"]
  /\ UNCHANGED <<st_pc, st_behav, st_raised, st_diag, st_joins, st_explicit, backendVars, multiVars, moveVars, pipeVars, cmdVars>>

\* The execution unit runs functor.execute() to its end.
single_execute ==
  /\ thread.state = "running"
  /\ thread' = [thread EXCEPT !.state = "done"]
  /\ UNCHANGED <<st_pc, st_behav, st_raised, st_diag, st_joins, st_explicit, backendVars, multiVars, moveVars, pipeVars, cmdVars>>

\* The owner calls wait().
single_thread_wait_call ==
  /\ st_pc = "launched"
  /\ st_pc' = "wait"
  /\ st_explicit' = TRUE
  /\ UNCHANGED <<st_behav, thread, st_raised, st_diag, st_joins, backendVars, multiVars, moveVars, pipeVars, cmdVars>>

\* wait(): thread.get() blocks until the unit has terminated, then returns
\* or rethrows what execute() threw.
single_thread_wait ==
  /\ st_pc = "wait"
  /\ Terminated(thread)
  /\ LET r == future_get(thread, st_behav) IN
       /\ st_pc' = IF r = "returned" THEN "waited" ELSE "threw"
       /\ st_raised' = IF r = "returned" THEN st_raised ELSE Append(st_raised, r)
  /\ thread' = [thread EXCEPT !.valid = FALSE]
  /\ st_joins' = st_joins + 1
  /\ UNCHANGED <<st_behav, st_diag, st_explicit, backendVars, multiVars, moveVars, pipeVars, cmdVars>>

\* ~__single_thread is entered: the handle leaves its scope, normally or
\* while the failure raised by wait() unwinds the owner.
single_thread_dtor ==
  /\ st_pc \in {"launched", "waited", "threw"}
  /\ st_pc' = IF DtorWaits(thread) THEN "dtor_wait" ELSE "dtor_base"
  /\ UNCHANGED <<st_behav, thread, st_raised, st_diag, st_joins, st_explicit, backendVars, multiVars, moveVars, pipeVars, cmdVars>>

\* ~__single_thread: try { wait(); } catch (Exception& E) { E.display(); }
\* A failure the handler does not match leaves a destructor, which is
\* noexcept: std::terminate().
single_thread_dtor_wait ==
  /\ st_pc = "dtor_wait"
  /\ Terminated(thread)
  /\ LET r == future_get(thread, st_behav) IN
       /\ st_pc' = IF r = "returned" \/ Catches(r) THEN "dtor_base" ELSE "terminated"
       /\ st_diag' = IF r # "returned" /\ Catches(r) THEN Append(st_diag, r) ELSE st_diag
  /\ thread' = [thread EXCEPT !.valid = FALSE]
  /\ st_joins' = st_joins + 1
  /\ UNCHANGED <<st_behav, st_raised, st_explicit, backendVars, multiVars, moveVars, pipeVars, cmdVars>>

SingleInit ==
  /\ st_pc = "init"
  /\ st_behav = "returned"
  /\ thread = NoFuture
  /\ st_raised = <<>>
  /\ st_diag = <<>>
  /\ st_joins = 0
  /\ st_explicit = FALSE

SingleNext ==
  \/ single_thread_ctor
  \/ single_start
  \/ single_execute
  \/ single_thread_wait_call
  \/ single_thread_wait
  \/ single_thread_dtor
  \/ single_thread_dtor_wait

--------------------------------------------------------------------------
\* __multi_thread<Functor>

\* functors (nthreads-1, functor): the number of copies asked of the vector.
\* nthreads is a size_t, so for nthreads = 0 it is 2^64 - 1, kept as -1.
NumCopiesAll(n) == n
NumCopies(n) == SizeDec(n)

\* std::vector (count, value) with count > max_size(): the constructor
\* throws (std::length_error, or std::bad_alloc from the allocator).
ExceedsMaxSize(n) == n < 0

\* for (auto& f : functors) threads.push_back (std::async (..., &f));
\* threads.push_back (std::async (..., &functor));
LaunchAll(fs, functor) ==
  [i \in 1 .. Len(fs) |-> AsyncOn(fs[i])] \o <<AsyncOn(functor)>>

\* __multi_thread (Functor& functor, size_t nthreads, name), called by
\* __run<__Multi<Functor>> with functor.functor and functor.num.  When the
\* initialiser of functors throws, no unit is started and the base, already
\* constructed, is destroyed while the failure leaves run().
multi_thread_ctor ==
  /\ st_pc = "init" /\ mt_pc = "init"
  /\ BaseConstructed
  /\ RunsGroup(request)
  /\ nthreads' = request.num
  /\ IF ExceedsMaxSize(NumCopies(request.num))
       THEN /\ mt_pc' = "ctor_threw"
            /\ mt_raised' = Append(mt_raised, "other")
            /\ UNCHANGED <<functors, threads, mt_behav>>
       ELSE /\ functors' = [i \in 1 .. NumCopies(request.num) |-> i]
            /\ threads' = LaunchAll(functors', request.functor)
            /\ mt_behav' \in [1 .. Len(threads') -> Outcomes]
            /\ mt_pc' = "launched"
            /\ UNCHANGED mt_raised
  /\ UNCHANGED <<mt_i, exception_thrown, mt_diag, mt_explicit,
                 request, backendVars, singleVars, moveVars, pipeVars, cmdVars>>

\* Execution unit i enters execute() of its functor.
multi_start(i) ==
  /\ threads[i].state = "created"
  /\ threads' = [threads EXCEPT ![i].state = "running"]
  /\ UNCHANGED <<mt_pc, nthreads, mt_behav, functors, mt_i, exception_thrown,
                 mt_raised, mt_diag, mt_explicit, request, backendVars, singleVars, moveVars, pipeVars, cmdVars>>

\* Execution unit i runs execute() to its end.
multi_execute(i) ==
  /\ threads[i].state = "running"
  /\ threads' = [threads EXCEPT ![i].state = "done"]
  /\ UNCHANGED <<mt_pc, nthreads, mt_behav, functors, mt_i, exception_thrown,
                 mt_raised, mt_diag, mt_explicit, request, backendVars, singleVars, moveVars, pipeVars, cmdVars>>

\* The owner calls wait(): bool exception_thrown = false; for (auto& t : threads)
multi_thread_wait_call ==
  /\ mt_pc = "launched"
  /\ mt_pc' = "wait"
  /\ mt_explicit' = TRUE
  /\ mt_i' = 1
  /\ exception_thrown' = FALSE
  /\ UNCHANGED <<nthreads, mt_behav, functors, threads, mt_raised, mt_diag,
                 request, backendVars, singleVars, moveVars, pipeVars, cmdVars>>

\* ~__multi_thread is entered: try { wait(); }
multi_thread_dtor ==
  /\ mt_pc \in {"launched", "waited", "threw"}
  /\ mt_pc' = "dtor_wait"
  /\ mt_i' = 1
  /\ exception_thrown' = FALSE
  /\ UNCHANGED <<nthreads, mt_behav, functors, threads, mt_raised, mt_diag,
                 mt_explicit, request, backendVars, singleVars, moveVars, pipeVars, cmdVars>>

\* One iteration of the loop of wait():
\*   if (!t.valid()) continue;
\*   try { t.get(); } catch (Exception& E) { exception_thrown = true; E.display(); }
\* A failure the handler does not match leaves wait() at once: to the
\* owner when the owner called wait(), out of ~__multi_thread (whose
\* handler does not match it either, and which is noexcept) otherwise.
multi_thread_wait_iter ==
  /\ mt_pc \in {"wait", "dtor_wait"}
  /\ mt_i <= Len(threads)
  /\ LET t == threads[mt_i]
         r == future_get(t, mt_behav[mt_i])
     IN IF ~t.valid
          THEN /\ mt_i' = mt_i + 1
               /\ UNCHANGED <<mt_pc, threads, exception_thrown, mt_raised, mt_diag>>
          ELSE /\ Terminated(t)
               /\ threads' = [threads EXCEPT ![mt_i].valid = FALSE]
               /\ IF r = "returned"
                    THEN /\ mt_i' = mt_i + 1
                         /\ UNCHANGED <<mt_pc, exception_thrown, mt_raised, mt_diag>>
                    ELSE IF Catches(r)
                      THEN /\ exception_thrown' = TRUE
                           /\ mt_diag' = Append(mt_diag, mt_i)
                           /\ mt_i' = mt_i + 1
                           /\ UNCHANGED <<mt_pc, mt_raised>>
                      ELSE /\ mt_pc' = IF mt_pc = "wait" THEN "threw" ELSE "terminated"
                           /\ mt_raised' = IF mt_pc = "wait" THEN Append(mt_raised, r)
                                                             ELSE mt_raised
                           /\ UNCHANGED <<mt_i, exception_thrown, mt_diag>>
  /\ UNCHANGED <<nthreads, mt_behav, functors, mt_explicit, request, backendVars, singleVars, moveVars, pipeVars, cmdVars>>

\* After the loop of wait():
\*   if (exception_thrown) throw Exception ("exception thrown from one or more threads");
\* In ~__multi_thread the aggregate is caught and displayed.
multi_thread_wait_end ==
  /\ mt_pc \in {"wait", "dtor_wait"}
  /\ mt_i > Len(threads)
  /\ IF mt_pc = "wait"
       THEN /\ mt_pc' = IF exception_thrown THEN "threw" ELSE "waited"
            /\ mt_raised' = IF exception_thrown THEN Append(mt_raised, "aggregate")
                                                ELSE mt_raised
            /\ mt_diag' = mt_diag
       ELSE /\ mt_pc' = IF exception_thrown /\ ~Catches("Exception")
                          THEN "terminated" ELSE "dtor_members"
            /\ mt_diag' = IF exception_thrown /\ Catches("Exception")
                            THEN Append(mt_diag, 0) ELSE mt_diag
            /\ mt_raised' = mt_raised
  /\ UNCHANGED <<nthreads, mt_behav, functors, threads, mt_i, exception_thrown,
                 mt_explicit, request, backendVars, singleVars, moveVars, pipeVars, cmdVars>>

\* The end of ~__multi_thread: the members are destroyed, functors first,
\* then threads, whose futures are all spent by then.
multi_thread_dtor_members ==
  /\ mt_pc = "dtor_members"
  /\ functors' = <<>>
  /\ mt_pc' = "dtor_base"
  /\ UNCHANGED <<nthreads, mt_behav, threads, mt_i, exception_thrown, mt_raised,
                 mt_diag, mt_explicit, request, backendVars, singleVars, moveVars, pipeVars, cmdVars>>

MultiInit ==
  /\ mt_pc = "init"
  /\ nthreads = 0
  /\ mt_behav = <<>>
  /\ functors = <<>>
  /\ threads = <<>>
  /\ mt_i = 0
  /\ exception_thrown = FALSE
  /\ mt_raised = <<>>
  /\ mt_diag = <<>>
  /\ mt_explicit = FALSE
  /\ request = NoRequest

MultiNext ==
  \/ multi_call
  \/ multi_thread_ctor
  \/ \E i \in 1 .. Len(threads) : multi_start(i)
  \/ \E i \in 1 .. Len(threads) : multi_execute(i)
  \/ multi_thread_wait_call
  \/ multi_thread_wait_iter
  \/ multi_thread_wait_end
  \/ multi_thread_dtor
  \/ multi_thread_dtor_members

--------------------------------------------------------------------------
\* Handles that are moved: __single_thread (__single_thread&&) = default and
\* __multi_thread (__multi_thread&&) = default.  One thread launches a handle,
\* moves handles, waits on them and destroys them, so its calls of
\* register_thread() and unregister_thread() do not interleave.

\* The future returned by std::async for execution unit u.
Future(u) == [valid |-> TRUE, unit |-> u]

\* The handle object built by run(): a __single_thread holds one future in
\* threads, a __multi_thread holds threads and functors.
NewHandle(kind, ts, fs) ==
  [kind |-> kind, alive |-> TRUE, moved |-> FALSE, threads |-> ts,
   functors |-> fs, dtor_joins |-> 0, dtor_reports |-> 0]

\* The source of a defaulted move: a moved-from std::future has no shared
\* state, a moved-from std::vector is empty.
MovedFromShares(hd) == hd
MovedFrom(hd) ==
  [hd EXCEPT !.moved = TRUE,
             !.threads = IF hd.kind = "single"
                           THEN <<[hd.threads[1] EXCEPT !.valid = FALSE]>>
                           ELSE <<>>,
             !.functors = <<>>]

\* The destination of a defaulted move: it takes the futures and the
\* functors of the source.
MoveTo(hd) == NewHandle(hd.kind, hd.threads, hd.functors)

\* register_thread() and unregister_thread() run by one thread, start to end.
RegisterSeq ==
  IF backend = 0
    THEN /\ heap' = Append(heap, [NewBackend EXCEPT !.refcount = SizeInc(0)])
         /\ backend' = Len(heap) + 1
    ELSE /\ heap' = [heap EXCEPT ![backend].refcount = SizeInc(@)]
         /\ backend' = backend

\* unregister_thread() on a null backend dereferences the null pointer.
UnregisterTo(next) ==
  IF backend = 0
    THEN /\ mv_pc' = "fault"
         /\ UNCHANGED <<backend, heap>>
    ELSE LET c == SizeDec(heap[backend].refcount) IN
         /\ heap' = [heap EXCEPT ![backend].refcount = c,
                                  ![backend].alive = (c # 0)]
         /\ backend' = IF c = 0 THEN 0 ELSE backend
         /\ mv_pc' = next

UnregisterSeq == UnregisterTo(mv_pc)

\* The loop of __multi_thread::wait() from future i on: spent futures are
\* skipped, an outcome is taken from each other one, an Exception is
\* displayed, any other failure leaves the loop.
RECURSIVE WaitFrom(_, _, _)
WaitFrom(ts, i, disp) ==
  IF i > Len(ts) THEN [threads |-> ts, displayed |-> disp, escaped |-> FALSE]
  ELSE IF ~ts[i].valid THEN WaitFrom(ts, i + 1, disp)
  ELSE LET r == units[ts[i].unit].behav
           spent == [ts EXCEPT ![i].valid = FALSE]
       IN IF r = "returned" THEN WaitFrom(spent, i + 1, disp)
          ELSE IF Catches(r) THEN WaitFrom(spent, i + 1, Append(disp, ts[i].unit))
          ELSE [threads |-> spent, displayed |-> disp, escaped |-> TRUE]

\* The units whose outcome a run of the loop takes.
JoinedBy(ts, w) ==
  {ts[i].unit : i \in {j \in 1 .. Len(ts) : ts[j].valid /\ ~w.threads[j].valid}}

UnitTerminated(u) == units[u].state = "done"

\* Thread::run (functor): one unit on the caller's functor.
mv_run_single ==
  /\ mv_pc = "run" /\ handles = <<>>
  /\ RegisterSeq
  /\ \E b \in Outcomes :
       units' = <<[state |-> "created", behav |-> b, functor |-> Original]>>
  /\ handles' = <<NewHandle("single", <<Future(1)>>, <<>>)>>
  /\ UNCHANGED <<mv_pc, pc, ref, tmp, phased, singleVars, multiVars, pipeVars, cmdVars>>

\* Thread::run (Thread::multi (functor, n)): n-1 copies, n units.
mv_run_multi ==
  /\ mv_pc = "run" /\ handles = <<>>
  /\ RegisterSeq
  /\ \E n \in 1 .. MoveThreads : \E bs \in [1 .. n -> Outcomes] :
       LET fs == [i \in 1 .. NumCopies(n) |-> i] IN
       /\ units' = [i \in 1 .. n |->
                      [state |-> "created", behav |-> bs[i],
                       functor |-> IF i < n THEN fs[i] ELSE Original]]
       /\ handles' = <<NewHandle("multi", [i \in 1 .. n |-> Future(i)], fs)>>
  /\ UNCHANGED <<mv_pc, pc, ref, tmp, phased, singleVars, multiVars, pipeVars, cmdVars>>

\* The constructor of a group in which the k-th std::async throws
\* std::system_error because no further thread can be started: k-1 units
\* are running, the body of ~__multi_thread is not run, and the failure
\* unwinds the members and the base that were constructed.
mv_run_multi_throw ==
  /\ mv_pc = "run" /\ handles = <<>>
  /\ RegisterSeq
  /\ \E n \in 1 .. MoveThreads : \E k \in 1 .. n : \E bs \in [1 .. k - 1 -> Outcomes] :
       LET fs == [i \in 1 .. NumCopies(n) |-> i] IN
       /\ units' = [i \in 1 .. k - 1 |->
                      [state |-> "created", behav |-> bs[i],
                       functor |-> IF i < n THEN fs[i] ELSE Original]]
       /\ handles' = <<[NewHandle("multi", [i \in 1 .. k - 1 |-> Future(i)], fs)
                          EXCEPT !.alive = FALSE]>>
  /\ mv_pc' = "ctor_threw"
  /\ UNCHANGED <<pc, ref, tmp, phased, singleVars, multiVars, pipeVars, cmdVars>>

\* The members are destroyed in the reverse order of their declaration:
\* functors (declared last) first.
mv_unwind_functors ==
  /\ mv_pc = "ctor_threw"
  /\ handles' = [handles EXCEPT ![1].functors = <<>>]
  /\ mv_pc' = "unwind_threads"
  /\ UNCHANGED <<units, backendVars, singleVars, multiVars, pipeVars, cmdVars>>

\* Then threads: the destructor of a future returned by std::async blocks
\* until its unit has ended.  Then ~__thread_base, and the failure reaches
\* the caller of run().
mv_unwind_threads ==
  /\ mv_pc = "unwind_threads"
  /\ \A u \in 1 .. Len(units) : UnitTerminated(u)
  /\ handles' = [handles EXCEPT ![1].threads = <<>>]
  /\ UnregisterTo("run_threw")
  /\ UNCHANGED <<units, pc, ref, tmp, phased, singleVars, multiVars, pipeVars, cmdVars>>

\* A new handle is move-constructed from handle h.  __thread_base declares
\* a destructor, so it has no move constructor: the base is copied, and the
\* copy constructor does not call register_thread().
mv_move(h) ==
  /\ mv_pc = "run"
  /\ handles[h].alive
  /\ Len(handles) < MaxHandles
  /\ handles' = Append([handles EXCEPT ![h] = MovedFrom(@)], MoveTo(handles[h]))
  /\ UNCHANGED <<units, mv_pc, backendVars, singleVars, multiVars, pipeVars, cmdVars>>

\* The positions of the owner at which the process is alive.
Alive == {"run", "ctor_threw", "unwind_threads"}

\* Execution unit u enters execute(), and runs it to its end.
mv_start(u) ==
  /\ mv_pc \in Alive
  /\ units[u].state = "created"
  /\ units' = [units EXCEPT ![u].state = "running"]
  /\ UNCHANGED <<handles, mv_pc, backendVars, singleVars, multiVars, pipeVars, cmdVars>>

mv_execute(u) ==
  /\ mv_pc \in Alive
  /\ units[u].state = "running"
  /\ units' = [units EXCEPT ![u].state = "done"]
  /\ UNCHANGED <<handles, mv_pc, backendVars, singleVars, multiVars, pipeVars, cmdVars>>

\* The owner calls wait() on handle h, which still holds a future with
\* shared state.  Whatever wait() raises goes to the owner.
mv_wait(h) ==
  /\ mv_pc = "run"
  /\ handles[h].alive
  /\ \E i \in 1 .. Len(handles[h].threads) : handles[h].threads[i].valid
  /\ LET hd == handles[h]
         w == IF hd.kind = "single"
                THEN [threads |-> <<[hd.threads[1] EXCEPT !.valid = FALSE]>>]
                ELSE WaitFrom(hd.threads, 1, <<>>)
     IN /\ \A u \in JoinedBy(hd.threads, w) : UnitTerminated(u)
        /\ handles' = [handles EXCEPT ![h].threads = w.threads]
  /\ UNCHANGED <<units, mv_pc, backendVars, singleVars, multiVars, pipeVars, cmdVars>>

\* Handle h is destroyed: the body of ~__single_thread or ~__multi_thread,
\* then the members, then ~__thread_base, which calls unregister_thread().
\* A failure that catch (Exception&) does not match leaves the destructor:
\* std::terminate().
mv_dtor(h) ==
  /\ mv_pc = "run"
  /\ handles[h].alive
  /\ LET hd == handles[h]
         w == IF hd.kind = "single" /\ ~DtorWaits(hd.threads[1])
                THEN [threads |-> hd.threads, displayed |-> <<>>, escaped |-> FALSE]
                ELSE WaitFrom(hd.threads, 1, <<>>)
         aggregate == IF hd.kind = "multi" /\ w.displayed # <<>> THEN 1 ELSE 0
     IN /\ \A u \in JoinedBy(hd.threads, w) : UnitTerminated(u)
        /\ IF w.escaped
             THEN /\ mv_pc' = "terminated"
                  /\ handles' = [handles EXCEPT
                       ![h].threads = w.threads,
                       ![h].dtor_joins = Cardinality(JoinedBy(hd.threads, w)),
                       ![h].dtor_reports = Len(w.displayed)]
                  /\ UNCHANGED <<backend, heap>>
             ELSE /\ handles' = [handles EXCEPT
                       ![h].alive = FALSE,
                       ![h].threads = w.threads,
                       ![h].functors = <<>>,
                       ![h].dtor_joins = Cardinality(JoinedBy(hd.threads, w)),
                       ![h].dtor_reports = Len(w.displayed) + aggregate]
                  /\ UnregisterSeq
  /\ UNCHANGED <<units, pc, ref, tmp, phased, singleVars, multiVars, pipeVars, cmdVars>>

MoveInit ==
  /\ handles = <<>>
  /\ units = <<>>
  /\ mv_pc = "run"

MoveNext ==
  \/ mv_run_single
  \/ mv_run_multi
  \/ mv_run_multi_throw
  \/ mv_unwind_functors
  \/ mv_unwind_threads
  \/ \E h \in 1 .. Len(handles) : mv_move(h)
  \/ \E h \in 1 .. Len(handles) : mv_wait(h)
  \/ \E h \in 1 .. Len(handles) : mv_dtor(h)
  \/ \E u \in 1 .. Len(units) : mv_start(u)
  \/ \E u \in 1 .. Len(units) : mv_execute(u)

--------------------------------------------------------------------------
\* Thread::run_queue(): the pipeline called at cmd/mrpermute.cpp:255.  Its
\* implementation (thread/queue.h) is not among the sources; it is modelled
\* from its contract: stage 1 is the producer, stage 2 a transform, stage 3
\* the consumer; hand-off point k lies between stage k and stage k + 1.

Stages == 1 .. 3
HandOffs == 1 .. 2
Items == 1 .. NItems

\* Stage replicas, as <<stage, replica>>.
Workers3 == Stages \X (1 .. Replicas)
Used(w) == w[2] <= nrep[w[1]]

\* A push blocks while the buffer is full.
FullNever(q) == FALSE
Full(q) == Len(q) >= cap

\* A pop takes the oldest buffered item out of the buffer.
RestKeeps(q) == q
Rest(q) == Tail(q)
Newest(q) == q[Len(q)]
Oldest(q) == Head(q)

\* The failure run_queue raises: the first one observed.
LastObserved(fs) == fs[Len(fs)]
FirstObserved(fs) == fs[1]

\* The upstream stage of hand-off point k has signalled end-of-stream: its
\* last replica has.
EndOfStreamFirst(k) == open[k] < nrep[k]
EndOfStream(k) == open[k] = 0

\* A producer replica emits the next item.
produce(w) ==
  /\ pl_pc = "running" /\ w[1] = 1 /\ Used(w)
  /\ wpc[w] = "fetch"
  /\ ~cancel
  /\ emitted < NItems
  /\ emitted' = emitted + 1
  /\ witem' = [witem EXCEPT ![w] = emitted + 1]
  /\ count' = [count EXCEPT ![1][emitted + 1] = @ + 1]
  /\ wpc' = [wpc EXCEPT ![w] = "push"]
  /\ UNCHANGED <<cap, nrep, queue, open, received, pl_pc>>
  /\ UNCHANGED <<failVars, nonPipeVars>>

\* A producer replica has no more work: it signals end-of-stream.
produce_end(w) ==
  /\ pl_pc = "running" /\ w[1] = 1 /\ Used(w)
  /\ wpc[w] = "fetch"
  /\ emitted >= NItems
  /\ wpc' = [wpc EXCEPT ![w] = "done"]
  /\ open' = [open EXCEPT ![1] = @ - 1]
  /\ UNCHANGED <<cap, nrep, emitted, queue, witem, count, received, pl_pc>>
  /\ UNCHANGED <<failVars, nonPipeVars>>

\* A replica of stage 1 or 2 pushes the item it holds downstream.
push(w) ==
  /\ pl_pc = "running" /\ w[1] \in HandOffs /\ Used(w)
  /\ wpc[w] = "push"
  /\ ~cancel
  /\ ~Full(queue[w[1]])
  /\ queue' = [queue EXCEPT ![w[1]] = Append(@, witem[w])]
  /\ witem' = [witem EXCEPT ![w] = 0]
  /\ wpc' = [wpc EXCEPT ![w] = "fetch"]
  /\ UNCHANGED <<cap, nrep, emitted, open, count, received, pl_pc>>
  /\ UNCHANGED <<failVars, nonPipeVars>>

\* A replica of stage 2 or 3 pops the oldest item of its upstream buffer.
pop(w) ==
  /\ pl_pc = "running" /\ w[1] - 1 \in HandOffs /\ Used(w)
  /\ wpc[w] = "fetch"
  /\ ~cancel
  /\ queue[w[1] - 1] # <<>>
  /\ witem' = [witem EXCEPT ![w] = Oldest(queue[w[1] - 1])]
  /\ queue' = [queue EXCEPT ![w[1] - 1] = Rest(@)]
  /\ wpc' = [wpc EXCEPT ![w] = "work"]
  /\ UNCHANGED <<cap, nrep, emitted, open, count, received, pl_pc>>
  /\ UNCHANGED <<failVars, nonPipeVars>>

\* A replica of stage 2 or 3 finds its upstream buffer drained after
\* end-of-stream: it ends, and a transform replica signals end-of-stream
\* downstream in its turn.
pop_end(w) ==
  /\ pl_pc = "running" /\ w[1] - 1 \in HandOffs /\ Used(w)
  /\ wpc[w] = "fetch"
  /\ queue[w[1] - 1] = <<>>
  /\ EndOfStream(w[1] - 1)
  /\ wpc' = [wpc EXCEPT ![w] = "done"]
  /\ open' = IF w[1] \in HandOffs THEN [open EXCEPT ![w[1]] = @ - 1] ELSE open
  /\ UNCHANGED <<cap, nrep, emitted, queue, witem, count, received, pl_pc>>
  /\ UNCHANGED <<failVars, nonPipeVars>>

\* A transform replica processes the item it popped (a no-op transform).
transform(w) ==
  /\ pl_pc = "running" /\ w[1] = 2 /\ Used(w)
  /\ wpc[w] = "work"
  /\ count' = [count EXCEPT ![2][witem[w]] = @ + 1]
  /\ wpc' = [wpc EXCEPT ![w] = "push"]
  /\ UNCHANGED <<cap, nrep, emitted, queue, open, witem, received, pl_pc>>
  /\ UNCHANGED <<failVars, nonPipeVars>>

\* A consumer replica takes in the item it popped.
consume(w) ==
  /\ pl_pc = "running" /\ w[1] = 3 /\ Used(w)
  /\ wpc[w] = "work"
  /\ count' = [count EXCEPT ![3][witem[w]] = @ + 1]
  /\ received' = Append(received, witem[w])
  /\ witem' = [witem EXCEPT ![w] = 0]
  /\ wpc' = [wpc EXCEPT ![w] = "fetch"]
  /\ UNCHANGED <<cap, nrep, emitted, queue, open, pl_pc>>
  /\ UNCHANGED <<failVars, nonPipeVars>>

\* The waiters a cancellation wakes: those in a pop and those in a push.
WokenInPop(at) == at = "fetch"
Woken(at) == at \in {"fetch", "push"}

\* The functor of a stage replica raises a failure instead of producing or
\* processing an item: the pipeline starts cancelling, which wakes the
\* replicas that are in a push or a pop to observe the cancellation and end;
\* a failure that is not the first one observed is reported as a diagnostic.
fail(w) ==
  /\ pl_pc = "running" /\ Used(w)
  /\ \/ w[1] = 1 /\ wpc[w] = "fetch" /\ emitted < NItems /\ ~cancel
     \/ w[1] # 1 /\ wpc[w] = "work"
  /\ Len(failures) < MaxFailures
  /\ wpc' = [v \in Workers3 |->
              IF v = w THEN "failed"
              ELSE IF Used(v) /\ Woken(wpc[v]) THEN "done" ELSE wpc[v]]
  /\ cancel' = TRUE
  /\ failures' = Append(failures, w)
  /\ pl_diag' = IF failures = <<>> THEN pl_diag ELSE Append(pl_diag, w)
  /\ UNCHANGED <<cap, nrep, emitted, queue, open, witem, count, received, pl_pc,
                 pl_raised, nonPipeVars>>

\* A replica that comes to a push or a pop after the cancellation began
\* observes it and ends.
observe_cancel(w) ==
  /\ pl_pc = "running" /\ Used(w)
  /\ cancel
  /\ Woken(wpc[w])
  /\ wpc' = [wpc EXCEPT ![w] = "done"]
  /\ UNCHANGED <<cap, nrep, emitted, queue, open, witem, count, received, pl_pc,
                 failVars, nonPipeVars>>

\* run_queue() returns once every replica of every stage has ended; it
\* raises the first failure observed, if any.
run_queue_return ==
  /\ pl_pc = "running"
  /\ \A w \in Workers3 : Used(w) => wpc[w] \in {"done", "failed"}
  /\ pl_pc' = IF failures = <<>> THEN "returned" ELSE "threw"
  /\ pl_raised' = IF failures = <<>> THEN pl_raised
                                     ELSE Append(pl_raised, FirstObserved(failures))
  /\ UNCHANGED <<cap, nrep, emitted, queue, open, wpc, witem, count, received,
                 cancel, failures, pl_diag, nonPipeVars>>

\* Nothing has failed.
FailInit ==
  /\ cancel = FALSE
  /\ failures = <<>>
  /\ pl_raised = <<>>
  /\ pl_diag = <<>>

\* No pipeline is run.
PipeIdle ==
  /\ cap = 1
  /\ nrep = [s \in Stages |-> 1]
  /\ emitted = 0
  /\ queue = [k \in HandOffs |-> <<>>]
  /\ open = [k \in HandOffs |-> 1]
  /\ wpc = [w \in Workers3 |-> "fetch"]
  /\ witem = [w \in Workers3 |-> 0]
  /\ count = [s \in Stages |-> [i \in Items |-> 0]]
  /\ received = <<>>
  /\ pl_pc = "idle"
  /\ FailInit

\* run_queue() has started the replicas of the three stages.
PipeInit ==
  /\ cap \in 1 .. Capacity
  /\ nrep \in {[s \in Stages |-> r] : r \in 1 .. Replicas}
  /\ emitted = 0
  /\ queue = [k \in HandOffs |-> <<>>]
  /\ open = [k \in HandOffs |-> nrep[k]]
  /\ wpc = [w \in Workers3 |-> IF Used(w) THEN "fetch" ELSE "unused"]
  /\ witem = [w \in Workers3 |-> 0]
  /\ count = [s \in Stages |-> [i \in Items |-> 0]]
  /\ received = <<>>
  /\ pl_pc = "running"
  /\ FailInit

PipeNext ==
  \/ \E w \in Workers3 : produce(w)
  \/ \E w \in Workers3 : produce_end(w)
  \/ \E w \in Workers3 : push(w)
  \/ \E w \in Workers3 : pop(w)
  \/ \E w \in Workers3 : pop_end(w)
  \/ \E w \in Workers3 : transform(w)
  \/ \E w \in Workers3 : consume(w)
  \/ run_queue_return

\* The steps of a run in which stage functors may fail.
PipeFailNext ==
  \/ PipeNext
  \/ \E w \in Workers3 : fail(w)
  \/ \E w \in Workers3 : observe_cancel(w)

\* Every replica runs on a thread of its own, which the scheduler does not
\* starve: a step a replica can take is taken in the end.  A functor is
\* never bound to fail.
PipeFairness ==
  \A w \in Workers3 :
     /\ WF_vars(produce(w)) /\ WF_vars(produce_end(w))
     /\ WF_vars(push(w)) /\ WF_vars(pop(w)) /\ WF_vars(pop_end(w))
     /\ WF_vars(transform(w)) /\ WF_vars(consume(w))
     /\ WF_vars(observe_cancel(w))

--------------------------------------------------------------------------
\* mrpermute: run()

\* The options that take a value, by the name given to Option().
OptionNames == {"nperms", "dh", "tfce_e", "tfce_h"}

\* get_options() returned an empty list: the option was not supplied.
Absent == -1

\* The values a user supplies: floats in thousandths, and for -nperms the
\* integer itself.
Supplied == {250, 3000}

\* The names a user gives for the mask and for the output prefix.
Names == {"a", "b"}

\* The defaults the usage text documents, floats in thousandths.
Documented ==
  [o \in OptionNames |->
     CASE o = "nperms" -> 5000
       [] o = "dh"     -> 100
       [] o = "tfce_e" -> 2000
       [] o = "tfce_h" -> 500]

\* opt = get_options (name); v = initial; if (opt.size()) v = opt[0][0];
get_option(name, initial) ==
  IF options[name] # Absent THEN options[name] ELSE initial

\* std::string prefix (argument[3]);
prefix == argument[3]

\* prefix + suffix
FileName(suffix) == <<prefix, suffix>>

\* No processor has been constructed.
NoProcessor == [dh |-> Absent, E |-> Absent, H |-> Absent]

\* The four options are read into dh, H, E and num_perms.
mp_get_options ==
  /\ mp_pc = "start"
  /\ mp_dh' = get_option("dh", 100)
  /\ mp_H' = get_option("tfce_h", 2000)
  /\ mp_E' = get_option("tfce_e", 500)
  /\ mp_num_perms' = get_option("nperms", 5000)
  /\ mp_pc' = "load"
  /\ UNCHANGED <<argument, options, processor, outputs, mergeVars, nonCmdVars>>

\* The subjects, the design, the contrast, the mask and the images are
\* loaded; a mismatch between them throws an Exception.
mp_load ==
  /\ mp_pc = "load"
  /\ \E ok \in BOOLEAN : mp_pc' = IF ok THEN "process" ELSE "threw"
  /\ UNCHANGED <<argument, options, mp_dh, mp_H, mp_E, mp_num_perms,
                 processor, outputs, mergeVars, nonCmdVars>>

\* Stats::Processor processor (..., design, contrast, dh, E, H), run by
\* Thread::run_queue.
mp_process ==
  /\ mp_pc = "process"
  /\ processor' = [dh |-> mp_dh, E |-> mp_E, H |-> mp_H]
  /\ mp_pc' = "tfce"
  /\ UNCHANGED <<argument, options, mp_dh, mp_H, mp_E, mp_num_perms,
                 outputs, mergeVars, nonCmdVars>>

\* Image::Buffer<float> (name, header) and Vector::save (name) create the
\* files of the given suffixes.
Created(suffixes) == outputs \cup {FileName(x) : x \in suffixes}

\* The two TFCE images.
mp_write_tfce ==
  /\ mp_pc = "tfce"
  /\ outputs' = Created({"_tfce_pos.mif", "_tfce_neg.mif"})
  /\ mp_pc' = "perm"
  /\ UNCHANGED <<argument, options, mp_dh, mp_H, mp_E, mp_num_perms,
                 processor, mergeVars, nonCmdVars>>

\* The two permutation distributions.
mp_write_perm ==
  /\ mp_pc = "perm"
  /\ outputs' = Created({"_permutation_pos.txt", "_permutation_neg.txt"})
  /\ mp_pc' = "pvalue"
  /\ UNCHANGED <<argument, options, mp_dh, mp_H, mp_E, mp_num_perms,
                 processor, mergeVars, nonCmdVars>>

\* The two p-value images.
mp_write_pvalue ==
  /\ mp_pc = "pvalue"
  /\ outputs' = Created({"_pvalue_pos.mif", "_pvalue_neg.mif"})
  /\ mp_pc' = "done"
  /\ UNCHANGED <<argument, options, mp_dh, mp_H, mp_E, mp_num_perms,
                 processor, mergeVars, nonCmdVars>>

\* mrpermute is not run.
PermuteIdle ==
  /\ mp_pc = "idle"
  /\ argument = [i \in 0 .. 4 |-> "a"]
  /\ options = [o \in OptionNames |-> Absent]
  /\ mp_dh = Absent /\ mp_H = Absent /\ mp_E = Absent /\ mp_num_perms = Absent
  /\ processor = NoProcessor
  /\ outputs = {}

\* mrpermute is started with five arguments and any choice of options.
PermuteInit ==
  /\ mp_pc = "start"
  /\ \E m \in Names, o \in Names :
       argument = [i \in 0 .. 4 |->
                     CASE i = 0 -> "input"
                       [] i = 1 -> "design"
                       [] i = 2 -> "contrast"
                       [] i = 3 -> m
                       [] i = 4 -> o]
  /\ options \in [OptionNames -> {Absent} \cup Supplied]
  /\ mp_dh = Absent /\ mp_H = Absent /\ mp_E = Absent /\ mp_num_perms = Absent
  /\ processor = NoProcessor
  /\ outputs = {}

PermuteNext ==
  \/ mp_get_options
  \/ mp_load
  \/ mp_process
  \/ mp_write_tfce
  \/ mp_write_perm
  \/ mp_write_pvalue

--------------------------------------------------------------------------
\* dirmerge: run()

\* The shells (b-values) of a set of direction lists, counted from 0.
ShellsOf(d) == DOMAIN d

\* The subsets (phase-encode directions) of each shell, counted from 0.
SubsetsOf(n) == 0 .. n - 1

\* Row k of the file read for subset p of shell b.
Row(b, p, k) == <<b, p, k>>

\* The direction lists load_cartesian() gives for files of the given sizes.
Load(sizes) ==
  [b \in DOMAIN sizes |->
     [p \in DOMAIN sizes[b] |-> [k \in 1 .. sizes[b][p] |-> Row(b, p, k)]]]

\* for (auto& m : d) n += m.size();
RECURSIVE SumSizes(_, _)
SumSizes(d, ps) ==
  IF ps = {} THEN 0
  ELSE LET p == CHOOSE x \in ps : TRUE
       IN Len(d[p]) + SumSizes(d, ps \ {p})

ShellSize(d, b) == SumSizes(d[b], DOMAIN d[b])

\* size_t total: the number of directions of all shells and subsets.
RECURSIVE Total(_, _)
Total(d, bs) ==
  IF bs = {} THEN 0
  ELSE LET b == CHOOSE x \in bs : TRUE
       IN ShellSize(d, b) + Total(d, bs \ {b})

\* An erase that removes nothing.
EraseNothing(list, n) == list

\* dirs[b][p].erase (dirs[b][p].begin()+n), with n counted from 0.
Erase(list, n) ==
  [k \in 1 .. Len(list) - 1 |-> IF k <= n THEN list[k] ELSE list[k + 1]]

\* The lambda push: the direction is appended to merged, tagged with the
\* shell and the subset, and erased from its list.
dm_push(b, p, n) ==
  /\ merged' = Append(merged, [d |-> dirs[b][p][n + 1], b |-> b, pe |-> p])
  /\ dirs' = [dirs EXCEPT ![b][p] = Erase(dirs[b][p], n)]

\* The shells the search for a shortfall considers: those that still have
\* a direction in the current phase-encode subset.
Candidates == {n \in ShellsOf(dirs) : dirs[n][nPE] # <<>>}

\* The shell the search ends with: b stays 0 when there is no candidate;
\* otherwise the first candidate replaces the initial fraction_diff (every
\* f_diff is finite and below numeric_limits::max()), and each later
\* replacement is by a candidate, so that b is one of the candidates, the
\* one the floating-point comparisons select.
ShortfallShells == IF Candidates = {} THEN {0} ELSE Candidates

\* The values find_lowest_energy_direction (b, p) can return: best stays 0
\* over an empty list or when no energy is below the initial bestE, and is
\* otherwise an index of the list.
LowestEnergy(b, p) ==
  IF dirs[b][p] = <<>> THEN {0} ELSE 0 .. Len(dirs[b][p]) - 1

\* ++nPE; if (nPE >= num_subsets) nPE = 0;
NextPE(pe) == IF pe + 1 >= num_subsets THEN 0 ELSE pe + 1

\* total and fraction are computed, a direction of the first subset of the
\* first shell is picked at random and pushed, and nPE is set.
dm_first ==
  /\ dm_pc = "start"
  /\ dirs[0][0] # <<>>
  /\ total' = Total(dirs, ShellsOf(dirs))
  /\ fraction' = [b \in ShellsOf(dirs) |-> ShellSize(dirs, b)]
  /\ \E first \in 0 .. Len(dirs[0][0]) - 1 : dm_push(0, 0, first)
  /\ nPE' = IF num_subsets > 1 THEN 1 ELSE 0
  /\ dm_pc' = "loop"
  /\ UNCHANGED <<num_subsets, loaded, dm_skipped, permuteVars, nonCmdVars>>

\* The first subset of the first shell is empty: the bound
\* dirs[0][0].size()-1 wraps, and push() indexes an empty vector.
dm_first_empty ==
  /\ dm_pc = "start"
  /\ dirs[0][0] = <<>>
  /\ dm_pc' = "fault"
  /\ UNCHANGED <<num_subsets, dirs, total, fraction, merged, nPE, loaded,
                 dm_skipped, permuteVars, nonCmdVars>>

\* One iteration of the merge loop.
dm_iterate ==
  /\ dm_pc = "loop"
  /\ Len(merged) < total
  /\ \E b \in ShortfallShells :
       \E n \in LowestEnergy(b, nPE) :
          IF dirs[b][nPE] # <<>>
          THEN dm_push(b, nPE, n) /\ UNCHANGED dm_skipped
          ELSE dm_skipped' = dm_skipped + 1 /\ UNCHANGED <<merged, dirs>>
  /\ nPE' = NextPE(nPE)
  /\ UNCHANGED <<dm_pc, num_subsets, total, fraction, loaded, permuteVars,
                 nonCmdVars>>

\* The loop ends and merged is written out.
dm_write ==
  /\ dm_pc = "loop"
  /\ ~(Len(merged) < total)
  /\ dm_pc' = "done"
  /\ UNCHANGED <<num_subsets, dirs, total, fraction, merged, nPE, loaded,
                 dm_skipped, permuteVars, nonCmdVars>>

\* dirmerge is not run.
MergeIdle ==
  /\ dm_pc = "idle"
  /\ num_subsets = 1
  /\ loaded = Load([b \in 0 .. 0 |-> [p \in 0 .. 0 |-> 0]])
  /\ dirs = loaded
  /\ total = 0
  /\ fraction = [b \in 0 .. 0 |-> 0]
  /\ merged = <<>>
  /\ nPE = 0
  /\ dm_skipped = 0

\* The arguments have been read: any number of shells and of subsets, and
\* files of any size, up to the bounds.
MergeInit ==
  /\ dm_pc = "start"
  /\ num_subsets \in 1 .. MaxSubsets
  /\ \E nb \in 1 .. MaxShells :
       \E sizes \in [0 .. nb - 1 -> [SubsetsOf(num_subsets) -> 0 .. MaxDirs]] :
          /\ Total(Load(sizes), 0 .. nb - 1) <= MaxTotal
          /\ loaded = Load(sizes)
  /\ dirs = loaded
  /\ total = 0
  /\ fraction = [b \in ShellsOf(loaded) |-> 0]
  /\ merged = <<>>
  /\ nPE = 0
  /\ dm_skipped = 0

MergeNext ==
  \/ dm_first
  \/ dm_first_empty
  \/ dm_iterate
  \/ dm_write

--------------------------------------------------------------------------
\* Dialog::File

\* dir = NULL
NULL == [path |-> -1, pos |-> 0]

\* The directories, by depth below the root.
Depths == 0 .. MaxDepth

\* new Path::Dir (path): a handle at the start of the directory.
OpenDir(path) == [path |-> path, pos |-> 0]

\* The loop over dir->read_name() of update(): it ends when read_name()
\* returns the empty string, at the end of the directory.
ReadAll(d) == [d EXCEPT !.pos = listing[d.path]]

\* A rewind that leaves the handle where it is.
NoRewind(d) == d

\* dir->rewind()
Rewind(d) == [d EXCEPT !.pos = 0]

\* Path::dirname (cwd): the parent directory, the root being its own.
dirname(path) == IF path = 0 THEN 0 ELSE path - 1

\* Path::home()
home == IF MaxDepth >= 1 THEN 1 ELSE 0

\* File::update(): the OK button is disabled, the directory of cwd is opened
\* and read to its end for the folders, then rewound, and the timer started.
update(path) ==
  /\ ok_button' = FALSE
  /\ cwd' = path
  /\ dir' = Rewind(ReadAll(OpenDir(path)))
  /\ idle_timer' = TRUE
  /\ fd_seen' = 0
  /\ UNCHANGED <<listing, nonDialogVars>>

\* File::File(): the timer is created inactive, and update() is called.
File ==
  /\ fd_pc = "idle"
  /\ fd_pc' = "open"
  /\ update(cwd)

\* The Refresh button: update().
refresh ==
  /\ fd_pc = "open"
  /\ update(cwd)
  /\ UNCHANGED fd_pc

up_slot ==
  /\ fd_pc = "open"
  /\ update(dirname(cwd))
  /\ UNCHANGED fd_pc

home_slot ==
  /\ fd_pc = "open"
  /\ update(home)
  /\ UNCHANGED fd_pc

\* A folder of the list is activated: cwd has a sub-directory.
folder_selected_slot ==
  /\ fd_pc = "open"
  /\ cwd < MaxDepth
  /\ update(cwd + 1)
  /\ UNCHANGED fd_pc

\* File::idle_slot(), run by the timeout of idle_timer: get_next_file() is
\* called until the busy interval has elapsed, which leaves the handle
\* further on in the directory, or until it returns the empty string at the
\* end of the directory. A null handle at the assertion ends the dialog.
idle_slot ==
  /\ fd_pc = "open"
  /\ idle_timer
  /\ IF dir = NULL
     THEN /\ fd_pc' = "fault"
          /\ UNCHANGED <<dir, idle_timer, ok_button, fd_seen>>
     ELSE /\ UNCHANGED fd_pc
          /\ \E to \in dir.pos .. listing[dir.path], ended \in BOOLEAN :
               /\ ended => to = listing[dir.path]
               /\ fd_seen' = fd_seen + (to - dir.pos)
               /\ IF ended
                  THEN /\ idle_timer' = FALSE
                       /\ ok_button' = TRUE
                       /\ dir' = NULL
                  ELSE /\ dir' = [dir EXCEPT !.pos = to]
                       /\ UNCHANGED <<idle_timer, ok_button>>
  /\ UNCHANGED <<listing, cwd, nonDialogVars>>

\* No dialog is constructed.
DialogIdle ==
  /\ fd_pc = "idle"
  /\ listing = [p \in Depths |-> 0]
  /\ cwd = 0
  /\ dir = NULL
  /\ idle_timer = FALSE
  /\ ok_button = FALSE
  /\ fd_seen = 0

\* A dialog is about to be constructed, in any directory of any file system.
DialogInit ==
  /\ fd_pc = "idle"
  /\ listing \in [Depths -> 0 .. MaxEntries]
  /\ cwd \in Depths
  /\ dir = NULL
  /\ idle_timer = FALSE
  /\ ok_button = FALSE
  /\ fd_seen = 0

DialogNext ==
  \/ File
  \/ refresh
  \/ up_slot
  \/ home_slot
  \/ folder_selected_slot
  \/ idle_slot

\* No command is run.
CmdIdle == PermuteIdle /\ MergeIdle /\ DialogIdle

--------------------------------------------------------------------------
\* Specifications

\* Threads that call register_thread() and unregister_thread() concurrently.
InitBackend ==
  /\ BackendInit /\ phased \in BOOLEAN
  /\ SingleInit /\ MultiInit /\ MoveInit /\ PipeIdle /\ CmdIdle

SpecBackend ==
  InitBackend
  /\ [][BackendNext /\ UNCHANGED <<singleVars, multiVars, moveVars, pipeVars, cmdVars>>]_vars

\* One thread calls Thread::run() for a single-thread handle or for a group
\* handle, may wait() on the handle, and destroys it.
InitHandle ==
  /\ BackendInit /\ phased = FALSE
  /\ SingleInit /\ MultiInit /\ MoveInit /\ PipeIdle /\ CmdIdle

HandleNext ==
  \/ thread_base_ctor
  \/ SingleNext
  \/ MultiNext
  \/ thread_base_dtor

SpecHandle == InitHandle /\ [][HandleNext]_vars

\* One thread launches a handle, move-constructs further handles from it,
\* waits on handles and destroys them, in any order.
SpecMove == InitHandle /\ [][MoveNext]_vars

\* One call of Thread::run_queue(): a producer stage, a transform stage and
\* a consumer stage, in which nothing fails.
InitPipeline ==
  /\ BackendInit /\ phased = FALSE
  /\ SingleInit /\ MultiInit /\ MoveInit /\ PipeInit /\ CmdIdle

SpecPipeline == InitPipeline /\ [][PipeNext]_vars

\* The same call on threads that are scheduled fairly.
SpecPipelineFair ==
  InitPipeline /\ [][PipeNext]_vars /\ PipeFairness /\ WF_vars(run_queue_return)

\* One call of Thread::run_queue() in which stage functors may fail, with
\* the smallest or the largest queue capacity.
InitPipelineFail == InitPipeline /\ cap \in {1, Capacity}

SpecPipelineFail == InitPipelineFail /\ [][PipeFailNext]_vars

SpecPipelineFailFair ==
  /\ InitPipelineFail /\ [][PipeFailNext]_vars
  /\ PipeFairness /\ WF_vars(run_queue_return)

\* One run of mrpermute.
InitPermute ==
  /\ BackendInit /\ phased = FALSE
  /\ SingleInit /\ MultiInit /\ MoveInit /\ PipeIdle
  /\ PermuteInit /\ MergeIdle /\ DialogIdle

SpecPermute == InitPermute /\ [][PermuteNext]_vars

\* One run of dirmerge; it is a single thread, which always goes on.
InitMerge ==
  /\ BackendInit /\ phased = FALSE
  /\ SingleInit /\ MultiInit /\ MoveInit /\ PipeIdle
  /\ PermuteIdle /\ MergeInit /\ DialogIdle

SpecMerge == InitMerge /\ [][MergeNext]_vars /\ WF_vars(MergeNext)

\* One file dialog and the events it receives, one at a time.
InitDialog ==
  /\ BackendInit /\ phased = FALSE
  /\ SingleInit /\ MultiInit /\ MoveInit /\ PipeIdle
  /\ PermuteIdle /\ MergeIdle /\ DialogInit

SpecDialog == InitDialog /\ [][DialogNext]_vars

--------------------------------------------------------------------------
\* Properties of the group handle, checked under SpecHandle

Workers == 1 .. Len(threads)

FailedWorkers == {i \in Workers : mt_behav[i] \in Failures}

\* The owner's call of wait() has returned or raised, and the handle is not
\* yet being destroyed.
WaitReturned == mt_pc \in {"waited", "threw"}

\* C1: wait() on a group returns normally only if every replica completed
\* without failure; if some replica failed it raises one aggregated failure,
\* and only after it has joined (observed the outcome of) every replica,
\* wherever the failing replica stands in the group.
C1_WaitAggregates ==
  /\ mt_pc = "waited" => FailedWorkers = {}
  /\ mt_pc = "threw" =>
       /\ FailedWorkers # {}
       /\ mt_raised = <<"aggregate">>
       /\ \A i \in Workers : ~threads[i].valid

\* C2: if exactly one replica fails and the others succeed, wait() raises
\* exactly one failure, and it returns only after all n replicas have
\* terminated: never while a sibling is still running.
C2_OneFailure ==
  (WaitReturned /\ Cardinality(FailedWorkers) = 1) =>
     /\ mt_pc = "threw"
     /\ Len(mt_raised) = 1
     /\ \A i \in Workers : Terminated(threads[i])

\* C3: for every n >= 1 a group launch makes exactly n-1 internally owned
\* copies and starts exactly n execution units, one on each copy and one on
\* the caller's functor, so each functor instance is executed by exactly one
\* unit; and wait() on a group in which nothing fails returns normally.
C3_GroupLaunch ==
  mt_pc \notin {"init", "ctor_threw"} =>
     /\ nthreads >= 1
     /\ Len(threads) = nthreads
     /\ mt_pc # "dtor_base" =>
          /\ Len(functors) = nthreads - 1
          /\ {threads[i].functor : i \in Workers} =
               {0} \cup {functors[j] : j \in 1 .. Len(functors)}
     /\ \A i, j \in Workers : threads[i].functor = threads[j].functor => i = j
     /\ (WaitReturned /\ FailedWorkers = {}) => (mt_pc = "waited" /\ mt_raised = <<>>)

\* C3 witness: a group of more than one replica was launched, nothing failed
\* and the owner's wait() has returned.
C3_Witness == nthreads > 1 /\ FailedWorkers = {} /\ mt_pc = "waited"

\* C6: a group handle destroyed without a call of wait() blocks in its
\* destructor until every worker has terminated, emits one diagnostic for
\* each worker that failed, and lets no failure out of the destructor.
C6_GroupTeardownSwallows ==
  (~mt_explicit /\ mt_pc \in {"dtor_members", "dtor_base", "terminated"}) =>
     /\ mt_pc # "terminated"
     /\ \A i \in Workers : Terminated(threads[i])
     /\ \A i \in FailedWorkers :
          Cardinality({k \in 1 .. Len(mt_diag) : mt_diag[k] = i}) = 1
     /\ mt_raised = <<>>

\* The workers whose failure is not an MR::Exception.
OtherWorkers == {i \in Workers : mt_behav[i] = "other"}

Min(S) == CHOOSE x \in S : \A y \in S : x <= y

\* The workers whose own failure E.display() has reported.
Displayed == {mt_diag[k] : k \in 1 .. Len(mt_diag)} \ {0}

\* The failed workers that the loop of wait() reaches before it is left by
\* a failure its handler does not match.
CaughtWorkers ==
  IF OtherWorkers = {} THEN FailedWorkers
  ELSE {i \in FailedWorkers : i < Min(OtherWorkers)}

C13_NoFailureDropped ==
  /\ (st_behav \in Failures /\ st_pc \in {"dtor_base", "terminated"}) =>
       (st_raised # <<>> \/ st_diag # <<>>)
  /\ mt_pc \in {"dtor_base", "terminated"} =>
       \A i \in FailedWorkers :
          \/ i \in Displayed
          \/ mt_raised = <<"other">> /\ i = Min(OtherWorkers)

\* C14: in wait() on a group, the failure of each failed worker is
\* displayed as a diagnostic of its own, there are as many diagnostics as
\* failed workers, and all are emitted before wait() raises.
C14_DiagnosticsBeforeAggregate ==
  mt_pc = "threw" =>
     /\ Displayed = FailedWorkers
     /\ Len(mt_diag) = Cardinality(FailedWorkers)

\* C16: run() on a plain functor yields a single-thread handle with one
\* execution unit, on the caller's functor; run() on multi (functor, n)
\* yields a group handle with n units; the __Multi object refers to the
\* caller's functor itself, not to a copy, and holds n, and the group
\* launched from it runs on that functor with that n.
C16_RunDispatch ==
  /\ st_pc # "init" =>
       (~RunsGroup(request) /\ mt_pc = "init" /\ thread.functor = Original)
  /\ RunsGroup(request) => (request.functor = Original /\ st_pc = "init")
  /\ mt_pc \notin {"init", "ctor_threw"} =>
       /\ RunsGroup(request)
       /\ nthreads = request.num
       /\ Len(threads) = request.num
       /\ \E i \in Workers : threads[i].functor = Original
       /\ \A i \in Workers :
            threads[i].functor \in {request.functor} \cup 1 .. request.num - 1

\* C16 witness: a group of three units runs for the request multi (f, 3).
C16_Witness ==
  /\ mt_pc = "launched"
  /\ request = multi(Original, 3)
  /\ Len(threads) = 3

\* C17: a group launch requires n >= 1: a count of 0 never reaches the
\* computation of the n-1 copies, so nthreads-1 never wraps around, and no
\* group ever has a number of execution units other than the requested n.
C17_CountAtLeastOne ==
  /\ mt_pc # "init" => (nthreads >= 1 /\ ~ExceedsMaxSize(NumCopies(nthreads)))
  /\ mt_pc \notin {"init", "ctor_threw"} => Len(threads) = request.num

\* C18: the launch returns without waiting for the work: at the step on
\* which the constructor of a handle returns, no execution unit of the
\* handle has terminated, and none need have started.
C18_LaunchReturnsAtOnce ==
  [][/\ (st_pc = "init" /\ st_pc' = "launched") =>
          (~Terminated(thread))'
     /\ (mt_pc = "init" /\ mt_pc' = "launched") =>
          (\A i \in 1 .. Len(threads) : ~Terminated(threads[i]))'
    ]_vars

\* C18 witness: the owner of a group has gone past the launch, into wait(),
\* while no unit of the group has started yet.
C18_Witness ==
  /\ mt_pc = "wait"
  /\ nthreads > 1
  /\ \A i \in Workers : threads[i].state = "created"

--------------------------------------------------------------------------
\* Properties of the pipeline, checked under SpecPipeline

\* The places that hold item i: a stage replica, a slot of a hand-off
\* buffer, or the consumer's collection.
Holders(i) ==
  Cardinality({w \in Workers3 : witem[w] = i})
  + Cardinality({kj \in UNION {{<<k, j>> : j \in 1 .. Len(queue[k])} : k \in HandOffs} :
                   queue[kj[1]][kj[2]] = i})
  + Cardinality({j \in 1 .. Len(received) : received[j] = i})

\* C19: at every hand-off point the number of buffered items never exceeds
\* the capacity: a push on a full buffer blocks until a slot is free, and a
\* pop on an empty buffer blocks as long as the upstream stage has not
\* signalled end-of-stream.
C19_BoundedHandOff ==
  /\ \A k \in HandOffs : Len(queue[k]) <= cap
  /\ \A w \in Workers3 :
       (w[1] \in HandOffs /\ wpc[w] = "push" /\ Len(queue[w[1]]) >= cap) =>
          ~ENABLED push(w)
  /\ \A w \in Workers3 :
       (/\ w[1] - 1 \in HandOffs /\ wpc[w] = "fetch"
        /\ queue[w[1] - 1] = <<>> /\ ~EndOfStream(w[1] - 1)) =>
          (~ENABLED pop(w) /\ ~ENABLED pop_end(w))

\* C19 witness: a producer replica is blocked on a full buffer of capacity
\* 1 while a consumer replica is blocked on an empty one.
C19_Witness ==
  /\ cap = 1
  /\ \E w \in Workers3 : w[1] = 1 /\ wpc[w] = "push" /\ Len(queue[1]) = cap
  /\ \E w \in Workers3 : w[1] = 3 /\ wpc[w] = "fetch" /\ queue[2] = <<>>
                            /\ ~EndOfStream(2)

\* C20: in a pipeline run without failure every emitted item is processed
\* exactly once by each stage, hence by one replica of it: no item is lost
\* or duplicated, at any time exactly one place holds an emitted item, and
\* when run_queue returns the consumer has received exactly the items 1..N.
C20_ExactlyOnce ==
  /\ \A i \in Items : Holders(i) = IF i <= emitted THEN 1 ELSE 0
  /\ \A s \in Stages : \A i \in Items : count[s][i] <= 1
  /\ \A j \in 1 .. Len(received) :
       \A s \in Stages : count[s][received[j]] = 1
  /\ pl_pc = "returned" =>
       /\ Len(received) = NItems
       /\ {received[j] : j \in 1 .. Len(received)} = Items

\* C20 witness: run_queue has returned from a run whose transform and
\* consumer stages were replicated.
C20_Witness ==
  /\ pl_pc = "returned"
  /\ nrep[2] > 1 /\ nrep[3] > 1
  /\ Len(received) = NItems

\* The replicas of stage s that were started.
ReplicasOf(s) == {w \in Workers3 : w[1] = s /\ Used(w)}

Ended(w) == wpc[w] \in {"done", "failed"}

\* C21: once the producer stage has signalled end-of-stream, which for a
\* replicated producer is when its last replica has and not before, every
\* replica of the stages downstream drains what is buffered and then ends:
\* none ends before, none stays blocked on an empty queue for ever, and
\* run_queue returns.
C21_EndOfStreamDrains ==
  /\ [](\A w \in Workers3 : (Used(w) /\ w[1] # 1 /\ wpc[w] = "done") =>
          /\ queue[w[1] - 1] = <<>>
          /\ \A v \in ReplicasOf(w[1] - 1) : wpc[v] = "done")
  /\ (\A v \in ReplicasOf(1) : wpc[v] = "done")
       ~> (/\ pl_pc = "returned"
           /\ \A k \in HandOffs : queue[k] = <<>>
           /\ \A w \in Workers3 : Used(w) => wpc[w] = "done")

\* C21 witness: run_queue has returned from a run with a replicated
\* producer stage, after the consumer took every item.
C21_Witness ==
  /\ pl_pc = "returned"
  /\ nrep[1] > 1
  /\ Len(received) = NItems

\* C22: once a stage has raised a failure, no hand-off point accepts a new
\* item, every replica of the other stages ends instead of staying blocked
\* on a push or a pop, and run_queue returns with a failure.
C22_FailureUnblocks ==
  /\ [](cancel => \A w \in Workers3 :
          ~ENABLED produce(w) /\ ~ENABLED push(w) /\ ~ENABLED pop(w))
  /\ [](pl_pc = "returned" => failures = <<>>)
  /\ (failures # <<>>)
       ~> (pl_pc = "threw" /\ \A w \in Workers3 : Used(w) => Ended(w))

\* C22 witness: the transform stage has failed after an item went through
\* it, and a consumer replica that was blocked in a pop on an empty buffer,
\* with no end-of-stream signalled, has ended.
C22_Witness ==
  /\ pl_pc = "running"
  /\ failures # <<>> /\ failures[1][1] = 2
  /\ received # <<>>
  /\ queue[2] = <<>> /\ open[2] > 0
  /\ \E w \in ReplicasOf(3) : wpc[w] = "done"

\* C23: when several stages fail, run_queue raises exactly one failure,
\* the first one observed; each later one is reported as a diagnostic and
\* is not raised.
C23_FirstFailureRaised ==
  /\ Len(pl_raised) <= 1
  /\ pl_pc # "threw" => pl_raised = <<>>
  /\ pl_pc = "threw" =>
       /\ pl_raised = <<failures[1]>>
       /\ pl_diag = Tail(failures)
       /\ \A j \in 1 .. Len(pl_diag) : pl_diag[j] # pl_raised[1]

\* C23 witness: run_queue has raised after replicas of two different
\* stages failed.
C23_Witness ==
  /\ pl_pc = "threw"
  /\ Len(failures) = 2
  /\ failures[1][1] # failures[2][1]

\* C24: a hand-off point is a FIFO: a push adds at the end of the buffer
\* and a pop takes the oldest buffered item, so an item pushed before
\* another is popped before it; between single-replica stages the consumer
\* receives the items in the order the producer emitted them.
C24_FifoOrder ==
  /\ []((nrep = [s \in Stages |-> 1]) =>
          \A i, j \in 1 .. Len(received) : i < j => received[i] < received[j])
  /\ [][\A k \in HandOffs : queue'[k] # queue[k] =>
          \/ \E x \in Items : queue'[k] = Append(queue[k], x)
          \/ /\ queue[k] # <<>>
             /\ queue'[k] = Tail(queue[k])
             /\ \E w \in ReplicasOf(k + 1) :
                  witem[w] = 0 /\ witem'[w] = Head(queue[k])]_vars

\* C24 witness: between single-replica stages, the transform holds the
\* first item while the second is buffered behind it.
C24_Witness ==
  /\ nrep = [s \in Stages |-> 1]
  /\ queue[1] # <<>>
  /\ \E w \in ReplicasOf(2) : witem[w] # 0 /\ witem[w] < queue[1][1]

--------------------------------------------------------------------------
\* Properties of moved handles, checked under SpecMove

\* The handles that own execution unit u: the live handle objects that hold
\* a future with the shared state of u.
Owners(u) ==
  {h \in 1 .. Len(handles) :
     /\ handles[h].alive
     /\ \E i \in 1 .. Len(handles[h].threads) :
          handles[h].threads[i].valid /\ handles[h].threads[i].unit = u}

\* The units no wait() and no destructor has joined yet.
Unjoined ==
  {u \in 1 .. Len(units) :
     \E h \in 1 .. Len(handles) : \E i \in 1 .. Len(handles[h].threads) :
        handles[h].threads[i].valid /\ handles[h].threads[i].unit = u}

\* C15: a handle is move-only: after a move the destination, and no other
\* handle, owns the execution units; the moved-from handle owns none, and
\* its destruction neither joins a unit nor reports anything; at no time do
\* two handles own the same unit.
C15_MoveOnly ==
  /\ \A u \in 1 .. Len(units) : Cardinality(Owners(u)) <= 1
  /\ mv_pc = "run" =>
       \A u \in Unjoined : \E h \in Owners(u) : ~handles[h].moved
  /\ \A h \in 1 .. Len(handles) : handles[h].moved =>
       /\ \A u \in 1 .. Len(units) : h \notin Owners(u)
       /\ handles[h].functors = <<>>
       /\ handles[h].dtor_joins = 0
       /\ handles[h].dtor_reports = 0

\* C15 witness: a moved-from handle has been destroyed while the handle it
\* was moved to owns units that are still running.
C15_Witness ==
  /\ mv_pc = "run"
  /\ \E h, k \in 1 .. Len(handles) :
       /\ handles[h].moved /\ ~handles[h].alive
       /\ handles[k].alive
       /\ \E u \in 1 .. Len(units) : k \in Owners(u) /\ units[u].state = "running"

\* The registry's reference count, 0 when there is no registry.
RefCount == IF backend = 0 THEN 0 ELSE heap[backend].refcount

LiveHandles == {h \in 1 .. Len(handles) : handles[h].alive}

\* C27: the registry's reference count equals the number of live handle
\* objects after any sequence of launches, moves and destructions: every
\* unregister_thread() is matched by one earlier register_thread(), also
\* for a move-constructed handle, so the count does not underflow and the
\* registry is not destroyed while a handle is alive.
C27_RefcountMatchesHandles ==
  /\ mv_pc # "fault"
  /\ mv_pc = "run" => RefCount = Cardinality(LiveHandles)
  /\ LiveHandles # {} => backend # 0

\* The functor instances that exist: the caller's, and the copies held in
\* the vector functors of some handle.
LiveFunctors ==
  {Original} \cup UNION {{handles[h].functors[i] : i \in 1 .. Len(handles[h].functors)} :
                            h \in 1 .. Len(handles)}

\* C28: no execution unit of a group ever runs on a functor instance that
\* has been destroyed: every worker is joined before the copies the handle
\* owns are destroyed.
C28_NoUnitOnDestroyedFunctor ==
  \A u \in 1 .. Len(units) :
     units[u].state = "running" => units[u].functor \in LiveFunctors

\* C29: the first wait() on a group handle consumes the outcome of every
\* worker, whether or not it raises, so the join made by the teardown after
\* it observes no worker, blocks on nothing, lets nothing out and emits no
\* further diagnostic.
C29_SecondWaitIsNoop ==
  /\ WaitReturned => \A i \in Workers : ~threads[i].valid
  /\ (mt_explicit /\ mt_pc \in {"dtor_wait", "dtor_members", "dtor_base", "terminated"}) =>
       /\ \A i \in Workers : ~threads[i].valid
       /\ mt_pc # "terminated"
       /\ \A k \in 1 .. Len(mt_diag) : mt_diag[k] # 0
       /\ Len(mt_diag) = Cardinality(CaughtWorkers)

--------------------------------------------------------------------------
\* Properties of the single-thread handle, checked under SpecHandle

\* ~__thread_base has run to its end: the handle is destroyed.
SingleDestroyed == st_pc = "dtor_base" /\ pc[Caller] = "done"

\* The registration made by the handle's __thread_base is in force.
Registered ==
  /\ backend # 0
  /\ heap[backend].alive
  /\ heap[backend].refcount = 1

\* C4: if the functor of a single-thread handle failed, the owner's wait()
\* raises that failure, once; the later teardown of the handle does not join
\* again, raises nothing and reports nothing.
C4_SingleWaitRaisesOnce ==
  (st_explicit /\ st_behav \in Failures /\ st_pc # "wait") =>
     /\ st_pc \in {"threw", "dtor_base"}
     /\ st_raised = <<st_behav>>
     /\ st_joins = 1
     /\ st_diag = <<>>

\* C4 witness: the functor failed, the owner called wait(), and the handle
\* has since been destroyed.
C4_Witness == st_explicit /\ st_behav \in Failures /\ SingleDestroyed

\* C11: the execution unit of a single-thread handle is joined exactly once
\* over the handle's life: by wait() if the owner called it, by the
\* destructor otherwise; and the handle is never destroyed while its unit
\* is still running.
C11_JoinedExactlyOnce ==
  /\ st_joins <= 1
  /\ (st_explicit /\ st_pc # "wait") => (st_joins = 1 /\ ~thread.valid)
  /\ st_pc = "dtor_wait" => (~st_explicit /\ st_joins = 0)
  /\ st_pc \in {"dtor_base", "terminated"} =>
       (st_joins = 1 /\ ~thread.valid /\ Terminated(thread))

\* C11 witness: a handle the owner never waited on has been destroyed,
\* after its destructor joined the unit.
C11_Witness == SingleDestroyed /\ ~st_explicit /\ st_joins = 1

\* C5: a single-thread handle whose functor fails, destroyed without a call
\* of wait(): the destructor returns only once the unit has terminated, no
\* failure leaves it whatever the functor threw, one diagnostic was emitted,
\* and execution goes on after the handle's scope.
C5_SingleTeardownSwallows ==
  (~st_explicit /\ st_behav \in Failures /\ st_pc \in {"dtor_base", "terminated"}) =>
     /\ st_pc = "dtor_base"
     /\ Terminated(thread)
     /\ Len(st_diag) = 1
     /\ st_raised = <<>>

\* C10 as stated: the handle registers before its execution unit starts,
\* and the registration is released when the unit terminates, so that it is
\* no longer in force once wait() has observed the unit's end.
C10_UnregisterAtTermination ==
  /\ thread.state # "none" => pc[Caller] \notin InRegister
  /\ st_pc \in {"waited", "threw"} => ~Registered

\* C10 as amended: the handle registers before its execution unit starts;
\* the unit's termination and the return of wait() release nothing: the
\* registration stays in force until the handle is destroyed, and it is
\* released by ~__thread_base, after the body of ~__single_thread, which
\* joins the unit the handle still owns.
C10_UnregisterAtDestruction ==
  /\ thread.state # "none" => pc[Caller] \notin InRegister
  /\ (thread.state # "none" /\ st_pc # "dtor_base") => Registered
  /\ (st_pc # "init" /\ pc[Caller] # "registered") =>
       (st_pc = "dtor_base" /\ Terminated(thread) /\ ~thread.valid)
  /\ SingleDestroyed => backend = 0

\* C10 witness: a launched handle has been destroyed and its registration
\* released.
C10_Witness == SingleDestroyed /\ thread.state = "done" /\ backend = 0

--------------------------------------------------------------------------
\* Properties of the registry, checked under SpecBackend

\* The registration of thread p is live: its register_thread() has returned
\* and it has not yet called unregister_thread().
Live(p) == pc[p] = "registered"

AliveInstances == {i \in 1 .. Len(heap) : heap[i].alive}

\* Positions at which the next statement writes the instance pointer or
\* the reference count.
Mutating == {"r_new", "r_store", "u_store", "u_delete", "u_null"}

HoldsLock(p) == backend # 0 /\ heap[backend].mutex = p

\* C7: under any interleaving of N concurrent register() calls followed by
\* N unregister() calls, the thread-support state is constructed exactly
\* once, torn down exactly once, and never torn down, nor constructed a
\* second time, while a registration is live.
C7_ConstructedAndTornDownOnce ==
  phased =>
     /\ Len(heap) <= 1
     /\ (\E p \in Procs : Live(p)) => (backend # 0 /\ heap[backend].alive)
     /\ (\A p \in Procs : pc[p] = "done") =>
          (Len(heap) = 1 /\ AliveInstances = {} /\ backend = 0)

\* C8: every write of the reference count and of the instance pointer is
\* made while the registry's lock is held, so no two threads are inside
\* these writes at the same time.
C8_MutationsUnderLock ==
  /\ \A p \in Procs : pc[p] \in Mutating => HoldsLock(p)
  /\ \A p, q \in Procs : (pc[p] \in Mutating /\ pc[q] \in Mutating) => p = q

\* C9: register() and unregister() called concurrently always complete: no
\* state is reached in which a call is still pending and no thread can take
\* a step.
C9_CallsComplete ==
  (\E p \in Procs : pc[p] \notin {"registered", "done"}) => ENABLED BackendNext

--------------------------------------------------------------------------
\* Properties of mrpermute, checked under SpecPermute

\* C25: every output file mrpermute creates (the TFCE images, the
\* permutation text files, the p-value images) has as its prefix the
\* 'output' argument, the fifth positional argument, and no other argument.
C25_OutputsUnderOutputArgument ==
  \A f \in outputs : f[1] = argument[4]

\* The value an option has for the run: the one supplied, or the default
\* the usage text documents.
Effective(o) == IF options[o] # Absent THEN options[o] ELSE Documented[o]

\* C26: once the options are read, the variable of each option holds the
\* value supplied, or the documented default when none was supplied (2 for
\* -tfce_e, 0.5 for -tfce_h, 0.1 for -dh, 5000 for -nperms), and the
\* processor is given each variable in the role of its own option.
C26_OptionDefaults ==
  /\ mp_pc \notin {"idle", "start"} =>
       /\ mp_num_perms = Effective("nperms")
       /\ mp_dh = Effective("dh")
       /\ mp_E = Effective("tfce_e")
       /\ mp_H = Effective("tfce_h")
  /\ processor # NoProcessor =>
       /\ processor.dh = Effective("dh")
       /\ processor.E = Effective("tfce_e")
       /\ processor.H = Effective("tfce_h")

--------------------------------------------------------------------------
\* Properties of dirmerge, checked under SpecMerge

\* The rows of every file read, each with the shell and the subset of its
\* file.
InputRows ==
  UNION {{loaded[b][p][k] : k \in 1 .. Len(loaded[b][p])} :
           b \in ShellsOf(loaded), p \in SubsetsOf(num_subsets)}

\* merged holds every input row exactly once, under the shell and the
\* subset of its file, and nothing else.
MergedComplete ==
  /\ Len(merged) = total
  /\ total = Cardinality(InputRows)
  /\ \A r \in InputRows :
       Cardinality({i \in 1 .. Len(merged) : merged[i].d = r}) = 1
  /\ \A i \in 1 .. Len(merged) :
       /\ merged[i].d \in InputRows
       /\ merged[i].b = merged[i].d[1]
       /\ merged[i].pe = merged[i].d[2]

\* C30: when the first subset of the first shell is not empty the merge
\* loop ends; at its end merged holds exactly total entries, every input
\* direction once, tagged with its shell and its subset; and every
\* iteration moves the phase-encode index one step round 0..num_subsets-1,
\* whether or not it emitted a direction.
C30_MergeTerminatesComplete ==
  /\ (dm_pc = "start" /\ dirs[0][0] # <<>>) ~> (dm_pc = "done")
  /\ [](dm_pc = "done" => MergedComplete)
  /\ [](dm_pc = "loop" => nPE \in SubsetsOf(num_subsets))
  /\ [][dm_iterate => nPE' = (nPE + 1) % num_subsets]_vars

\* The loop has ended after an iteration that emitted nothing, with
\* directions of two shells and of two subsets merged.
C30_Witness ==
  /\ dm_pc = "done"
  /\ dm_skipped > 0
  /\ \E i, j \in 1 .. Len(merged) :
       merged[i].b # merged[j].b /\ merged[i].pe # merged[j].pe

--------------------------------------------------------------------------
\* Properties of the file dialog, checked under SpecDialog

\* An event that calls update().
UpdateEvent == File \/ refresh \/ up_slot \/ home_slot \/ folder_selected_slot

\* C31: after any sequence of update(), up, home, folder-selected and idle
\* events, the directory handle is non-null whenever the idle timer is
\* active, so that the assertion of idle_slot never fails; the OK button is
\* disabled by every update() and is enabled only once the idle slot has
\* read the whole directory of cwd; and the idle slot stops the timer,
\* enables the OK button and releases the handle together, at the end of
\* the directory.
C31_IdleScanProtocol ==
  /\ [](fd_pc # "fault")
  /\ [](idle_timer => dir # NULL /\ dir.path = cwd)
  /\ [](ok_button => ~idle_timer /\ dir = NULL /\ fd_seen = listing[cwd])
  /\ [][UpdateEvent => ~ok_button' /\ idle_timer']_vars
  /\ [][idle_slot =>
         /\ ok_button' <=> ~idle_timer'
         /\ ok_button' <=> dir' = NULL
         /\ ok_button' => dir.pos + (fd_seen' - fd_seen) = listing[cwd]]_vars

\* The idle slot has read a directory entered through the folder list to
\* its end, in more than one run, and the OK button is enabled.
C31_Witness ==
  /\ fd_pc = "open"
  /\ ok_button
  /\ cwd = MaxDepth
  /\ fd_seen = MaxEntries
  /\ dir = NULL

====
